---- MODULE Spec2Model ----
(***************************************************************************)
(* Model of the keymaster wallet top-up tool (tools/keymaster).            *)
(*                                                                         *)
(* top_up (keymaster.py) walks the configured homes, their (role, address) *)
(* pairs and their replicas, evaluates every address against the chain's   *)
(* threshold (utils.is_wallet_below_threshold), builds and signs a top-up  *)
(* transaction per under-funded pair (utils.create_transaction), appends   *)
(* it to the per-network transaction_queue, and then, network by network,  *)
(* asks the operator to confirm and dispatches the queue.                  *)
(*                                                                         *)
(* Amounts are counted in units of 5 * 10^16 wei, so that the hard-coded   *)
(* lower bound 150000000000000000 wei is 3 units: the code only subtracts, *)
(* compares and sums amounts, which commutes with the change of unit.      *)
(***************************************************************************)
EXTENDS Integers, Sequences, FiniteSets, TLC

\* ------------------------------------------------------------------------
\* Bounds of the model
\* ------------------------------------------------------------------------

\* balances read from a chain range over 1..MaxBalance
MaxBalance == 3

\* transactions sent from a bank by other processes while the run is going on
MaxExternalSends == 1

\* is_wallet_below_threshold on its own is called with values in 0..MaxProbe
MaxProbe == 4

\* ------------------------------------------------------------------------
\* Program constants
\* ------------------------------------------------------------------------

\* keymaster.py:112, 150000000000000000 wei in units of 5 * 10^16 wei
home_lower_bound == 3

\* keymaster.py:134
replica_lower_bound == 3

\* utils.py:46, @backoff.on_exception(..., max_tries=18) of get_nonce
NonceMaxTries == 18

\* utils.py:64, @backoff.on_exception(..., max_tries=8) of get_balance
BalanceMaxTries == 8

\* utils.py:74, @backoff.on_exception(..., max_tries=8) of dispatch_signed_transaction
DispatchMaxTries == 8

\* utils.py:56, @backoff.on_exception(..., max_tries=8) of get_block_height,
\* which neither top_up nor monitor calls
BlockHeightMaxTries == 8

\* ------------------------------------------------------------------------
\* The configuration document (config["networks"], config["homes"])
\* ------------------------------------------------------------------------

\* the configuration document at config_path: "valid"; "unknown replica", in
\* which home beta names a replica gamma that config["networks"] lacks;
\* "malformed", which is not JSON; "missing", no file at the path; "empty",
\* the JSON object {}
VARIABLE document

Documents == {"valid", "unknown replica", "malformed", "missing", "empty"}

\* the documents that parse to a non-empty dict
Loadable == {"valid", "unknown replica"}

\* config["networks"], in the document's order (a dict keeps insertion order)
Networks == <<"alpha", "beta">>

NetworkNames == {Networks[i] : i \in 1..Len(Networks)}

\* config["homes"], in the document's order
Homes == <<"alpha", "beta">>

\* config["homes"][home]["replicas"]
Replicas(home) ==
    IF home = "alpha" THEN <<"beta">>
    ELSE IF document = "unknown replica" THEN <<"gamma">>
    ELSE <<>>

\* config["homes"][home]["addresses"].items(): (role, address) pairs
Addresses(home) ==
    IF home = "alpha"
    THEN << [role |-> "updater", address |-> "A"] >>
    ELSE << [role |-> "updater", address |-> "A"],
            [role |-> "relayer", address |-> "B"] >>

\* the chains an address of a home is evaluated on: the home and its replicas
ChainsOf(h) == {h} \cup {Replicas(h)[r] : r \in 1..Len(Replicas(h))}

\* the (chain, address) pairs top_up reads a balance of, on the chains
\* config["networks"] has an endpoint for
Monitored ==
    UNION { UNION { { <<c, Addresses(Homes[h])[a].address>> :
                          c \in ChainsOf(Homes[h]) \cap NetworkNames } :
                    a \in 1..Len(Addresses(Homes[h])) } :
            h \in 1..Len(Homes) }

\* config["networks"][n]["threshold"] ranges over these (units of 5 * 10^16 wei)
Thresholds == {1, 5}

\* balances an address can hold on a chain
Balances == 1..MaxBalance

\* config["networks"][n]["bank"]["signer"]
BankSigner(n) == <<"key", n>>

\* the chain id the endpoint of network n reports (w3.eth.chain_id)
EndpointChainId(n) == IF n = "alpha" THEN 1 ELSE 2

\* the bank's on-chain transaction count when the run starts
InitialNonce(n) == IF n = "alpha" THEN 5 ELSE 0

\* ------------------------------------------------------------------------
\* Python values
\* ------------------------------------------------------------------------

PyFalse == [isInt |-> FALSE, val |-> 0]

PyInt(n) == [isInt |-> TRUE, val |-> n]

\* truth value of `if x:` for x an int or False
Truthy(x) == x.isInt /\ x.val # 0

RECURSIVE SumValues(_)
SumValues(q) == IF q = <<>> THEN 0 ELSE Head(q).value + SumValues(Tail(q))

\* ------------------------------------------------------------------------
\* utils.py
\* ------------------------------------------------------------------------

\* faulty variant of is_wallet_below_threshold: `<=` for `<`
is_wallet_below_threshold_le(wallet_wei, lower_bound, upper_bound) ==
    IF wallet_wei <= lower_bound
    THEN PyInt(upper_bound - wallet_wei)
    ELSE PyFalse

\* faulty variant of is_wallet_below_threshold: tops up to the lower bound
is_wallet_below_threshold_lower(wallet_wei, lower_bound, upper_bound) ==
    IF wallet_wei < lower_bound
    THEN PyInt(lower_bound - wallet_wei)
    ELSE PyFalse

\* is_wallet_below_threshold, given the balance get_balance returned
is_wallet_below_threshold(wallet_wei, lower_bound, upper_bound) ==
    IF wallet_wei < lower_bound
    THEN PyInt(upper_bound - wallet_wei)
    ELSE PyFalse

\* faulty variant of create_transaction: the chain id resolved once, from the
\* first configured network's endpoint, and reused for every build
create_transaction_cached_chain_id(sender_key, recipient_address, amount, nonce, endpoint) ==
    [nonce |-> nonce, to |-> recipient_address, value |-> amount,
     chainId |-> EndpointChainId(Networks[1]), signer |-> sender_key]

\* create_transaction's tx_params (nonce, to, value, chainId) and the key
\* the payload is signed with; gas and gasPrice play no part in the run
create_transaction(sender_key, recipient_address, amount, nonce, endpoint) ==
    [nonce |-> nonce, to |-> recipient_address, value |-> amount,
     chainId |-> EndpointChainId(endpoint), signer |-> sender_key]

\* outcomes of one call of a function wrapped by backoff.on_exception(expo,
\* ValueError): it returns, raises ValueError (retried) or raises another
\* exception, which the wrapper does not catch
AttemptOutcomes == {"ok", "ValueError", "other"}

\* outcomes of create_transaction: built and signed, w3.eth.chain_id raised,
\* or sign_transaction raised
CreateOutcomes == {"ok", "chain_id", "sign"}

\* ------------------------------------------------------------------------
\* State
\* ------------------------------------------------------------------------

VARIABLES
    threshold,             \* config["networks"][n]["threshold"]
    balance,               \* on-chain balance of every address on every chain
    chain_nonce,           \* on-chain transaction count of every chain's bank
    ext_sends,             \* transactions other processes sent from a bank
    pc,                    \* position of top_up
    hi, ai, ri,            \* home, address and replica being processed (ri = 0: the home chain)
    ni, ti,                \* network and transaction of the dispatch loops
    tries,                 \* failed attempts of the retried call in progress
    threshold_difference,  \* local of top_up
    bank_nonce,            \* home_bank_nonce / replica_bank_nonce
    transaction_queue,     \* transaction_queue[network]
    read_nonces,           \* per network, the bank nonce read for every queued transaction
    evaluated,             \* the last evaluation: home, address, chain, decision, queue position
    reported,              \* per network, the summary echoed before the prompt
    prompted,              \* networks the operator was asked about, in order
    confirmed,             \* networks the operator confirmed
    attempted,             \* per network, the transactions whose submission has started
    sent,                  \* per network, transactions the endpoint accepted
    raised,                \* the exception that ended the run, or none
    probe,                 \* inputs and results of is_wallet_below_threshold called on its own
    sign_calls,            \* calls of w3.eth.account.sign_transaction so far
    metrics,               \* monitor: the metrics server and the gauges set in the poll cycle
    conf,                  \* cli: what load_config returned
    kms,                   \* provision_kms_keys.py: the KMS account and the script's run
    installer              \* i.py: initialize_osmosis_home and the home directory

vars == <<threshold, balance, chain_nonce, ext_sends, pc, hi, ai, ri, ni, ti,
          tries, threshold_difference, bank_nonce, transaction_queue,
          read_nonces, evaluated, reported, prompted, confirmed,
          attempted, sent, raised, probe, sign_calls, metrics, document, conf,
          kms, installer>>

config_vars == <<threshold, balance, document, conf>>

loop_vars == <<hi, ai, ri>>

dispatch_vars == <<ni, ti, reported, prompted, confirmed, attempted, sent>>

NoEvaluation == [home |-> "none", address |-> "none", chain |-> "none",
                 difference |-> PyFalse, position |-> 0]

NoException == [op |-> "none", why |-> "none"]

NoProbe == [wallet_wei |-> 0, lower_bound |-> 0, upper_bound |-> 0,
            results |-> <<>>]

NoReport == [count |-> 0, total |-> 0]

\* the label sets monitor gives the wallet_balance and transaction_count
\* gauges (lines 89-90): role, home, address, network
Labels ==
    UNION { { [role |-> Addresses(Homes[h])[a].role, home |-> Homes[h],
               address |-> Addresses(Homes[h])[a].address, network |-> n] :
                 a \in 1..Len(Addresses(Homes[h])), n \in NetworkNames } :
            h \in 1..Len(Homes) }

\* monitor not running: no metrics server, no gauge set; the gauges count the
\* times they were set in the poll cycle in progress
NoMetrics == [server |-> FALSE,
              block_number |-> [n \in NetworkNames |-> 0],
              wallet_balance |-> [l \in Labels |-> 0],
              transaction_count |-> [l \in Labels |-> 0]]

\* provision_kms_keys.py not run: an account without aliases
NoKms == [pc |-> "none", run |-> 0, i |-> 0, foreign |-> 0, aliases |-> {},
          keys |-> 0, current_aliases |-> {}, new_keys |-> 0,
          new_aliases |-> 0, completed |-> 0, data_rows |-> <<>>]

\* i.py not run
NoInstaller == [pc |-> "none", overwrite |-> FALSE, home |-> "old",
                answers |-> <<>>, status |-> "none"]

\* the home, the (role, address) pair and the chain being processed
home == Homes[hi]

address == Addresses(home)[ai].address

chain == IF ri = 0 THEN home ELSE Replicas(home)[ri]

lower_bound == IF ri = 0 THEN home_lower_bound ELSE replica_lower_bound

Terminated == pc \in {"done", "aborted", "crashed"}

InConstruction == pc \in {"is_wallet_below_threshold", "get_nonce", "create_transaction"}

\* top_up lines 98-103: one empty queue per configured network
RunInit ==
    /\ chain_nonce = [n \in NetworkNames |-> InitialNonce(n)]
    /\ ext_sends = 0
    /\ hi = 1 /\ ai = 1 /\ ri = 0
    /\ ni = 1 /\ ti = 1
    /\ tries = 0
    /\ threshold_difference = PyFalse
    /\ bank_nonce = 0
    /\ transaction_queue = [n \in NetworkNames |-> <<>>]
    /\ read_nonces = [n \in NetworkNames |-> <<>>]
    /\ evaluated = NoEvaluation
    /\ reported = [n \in NetworkNames |-> NoReport]
    /\ prompted = <<>>
    /\ confirmed = {}
    /\ attempted = [n \in NetworkNames |-> <<>>]
    /\ sent = [n \in NetworkNames |-> <<>>]
    /\ raised = NoException
    /\ sign_calls = 0
    /\ metrics = NoMetrics
    /\ kms = NoKms
    /\ installer = NoInstaller

Init ==
    /\ document = "valid"
    /\ conf = "dict"
    /\ threshold \in [NetworkNames -> Thresholds]
    /\ balance \in [Monitored -> Balances]
    /\ probe = NoProbe
    /\ pc = "is_wallet_below_threshold"
    /\ RunInit

\* an exception nothing in top_up catches: the run ends
Raise(op, why) ==
    /\ pc' = "crashed"
    /\ raised' = [op |-> op, why |-> why]
    /\ tries' = 0

\* faulty variant of RetryOrRaise: a decorator without max_tries retries for
\* ever
RetryForever(max_tries, op) ==
    /\ tries' = (tries + 1) % max_tries
    /\ UNCHANGED <<pc, raised>>

\* one failed attempt of a call wrapped with max_tries: retried, or re-raised
\* after the max_tries-th failure
RetryOrRaise(max_tries, op) ==
    IF tries + 1 < max_tries
    THEN /\ tries' = tries + 1
         /\ UNCHANGED <<pc, raised>>
    ELSE Raise(op, "retries exhausted")

\* faulty variant of evaluation_chain: the replica block keeps the home
\* block's endpoint and threshold
evaluation_chain_home == home

\* the chain whose endpoint and threshold an evaluation uses: home_endpoint
\* (line 113) in the home block, replica_endpoint (line 135) in the replica block
evaluation_chain == chain

\* faulty variant of Advance: the transaction stats nested in the loop over
\* the homes, reached when the first home's addresses are done
AdvanceStatsInsideHomeLoop ==
    IF ri < Len(Replicas(home))
    THEN /\ ri' = ri + 1
         /\ pc' = "is_wallet_below_threshold"
         /\ UNCHANGED <<hi, ai>>
    ELSE IF ai < Len(Addresses(home))
    THEN /\ ai' = ai + 1
         /\ ri' = 0
         /\ pc' = "is_wallet_below_threshold"
         /\ UNCHANGED hi
    ELSE /\ pc' = "transaction_stats"
         /\ UNCHANGED <<hi, ai, ri>>

\* the loops of lines 105, 107 and 130: the next (home, address, chain) to
\* process, or the transaction stats once every home is done
Advance ==
    IF ri < Len(Replicas(home))
    THEN /\ ri' = ri + 1
         /\ pc' = "is_wallet_below_threshold"
         /\ UNCHANGED <<hi, ai>>
    ELSE IF ai < Len(Addresses(home))
    THEN /\ ai' = ai + 1
         /\ ri' = 0
         /\ pc' = "is_wallet_below_threshold"
         /\ UNCHANGED hi
    ELSE IF hi < Len(Homes)
    THEN /\ hi' = hi + 1
         /\ ai' = 1
         /\ ri' = 0
         /\ pc' = "is_wallet_below_threshold"
    ELSE /\ pc' = "transaction_stats"
         /\ UNCHANGED <<hi, ai, ri>>

\* lines 110-118 and 132-139: the chain's entry in config["networks"] (a
\* KeyError when the document names a chain that has none), then
\* is_wallet_below_threshold, whose get_balance is retried up to 8 times
IsWalletBelowThreshold ==
    /\ pc = "is_wallet_below_threshold"
    /\ IF chain \notin NetworkNames
       THEN /\ Raise("config", "KeyError")
            /\ UNCHANGED threshold_difference
       ELSE \E outcome \in AttemptOutcomes :
        \/ /\ outcome = "ok"
           /\ threshold_difference' =
                  is_wallet_below_threshold(balance[evaluation_chain, address],
                                            lower_bound, threshold[evaluation_chain])
           /\ pc' = "get_nonce"
           /\ tries' = 0
           /\ UNCHANGED raised
        \/ /\ outcome = "ValueError"
           /\ RetryOrRaise(BalanceMaxTries, "get_balance")
           /\ UNCHANGED threshold_difference
        \/ /\ outcome = "other"
           /\ Raise("get_balance", "not retried")
           /\ UNCHANGED threshold_difference
    /\ UNCHANGED <<config_vars, chain_nonce, ext_sends, loop_vars, dispatch_vars,
                   bank_nonce, transaction_queue, read_nonces, evaluated,
                   probe, sign_calls, metrics,
                   kms, installer>>

\* lines 120-122 and 141-143 (and 127-128, 147-148): the bank's nonce is read
\* for every pair, needed or not; then the branch on threshold_difference
GetNonce ==
    /\ pc = "get_nonce"
    /\ \E outcome \in AttemptOutcomes :
        \/ /\ outcome = "ok"
           /\ bank_nonce' = chain_nonce[chain]
           /\ tries' = 0
           /\ UNCHANGED raised
           /\ IF Truthy(threshold_difference)
              THEN /\ pc' = "create_transaction"
                   /\ UNCHANGED <<loop_vars, evaluated>>
              ELSE /\ evaluated' = [home |-> home, address |-> address, chain |-> chain,
                                    difference |-> threshold_difference, position |-> 0]
                   /\ Advance
        \/ /\ outcome = "ValueError"
           /\ RetryOrRaise(NonceMaxTries, "get_nonce")
           /\ UNCHANGED <<bank_nonce, loop_vars, evaluated>>
        \/ /\ outcome = "other"
           /\ Raise("get_nonce", "not retried")
           /\ UNCHANGED <<bank_nonce, loop_vars, evaluated>>
    /\ UNCHANGED <<config_vars, chain_nonce, ext_sends, dispatch_vars,
                   threshold_difference, transaction_queue, read_nonces,
                   probe, sign_calls, metrics,
                   kms, installer>>

\* faulty variant of next_nonce: the queue offset is left out
next_nonce_no_offset == bank_nonce

\* lines 125 and 145: the nonce of the transaction being built
next_nonce == bank_nonce + Len(transaction_queue[chain])

\* faulty variant of sign_max_tries: create_transaction wrapped in the retry
\* decorator of get_balance
sign_max_tries_retried == BalanceMaxTries

\* utils.py lines 23-40: create_transaction carries no backoff decorator, so
\* sign_transaction (line 39) is attempted once
sign_max_tries == 1

\* lines 125-126 and 145-146: build, sign and enqueue the top-up; chain_id is
\* read (utils.py line 27) before the payload is signed (line 39)
CreateTransaction ==
    /\ pc = "create_transaction"
    /\ \E outcome \in CreateOutcomes :
        \/ /\ outcome = "ok"
           /\ transaction_queue' =
                  [transaction_queue EXCEPT ![chain] =
                      Append(@, create_transaction(BankSigner(chain), address,
                                                   threshold_difference.val,
                                                   next_nonce, chain))]
           /\ read_nonces' = [read_nonces EXCEPT ![chain] = Append(@, bank_nonce)]
           /\ evaluated' = [home |-> home, address |-> address, chain |-> chain,
                            difference |-> threshold_difference,
                            position |-> Len(transaction_queue[chain]) + 1]
           /\ Advance
           /\ sign_calls' = sign_calls + 1
           /\ tries' = 0
           /\ UNCHANGED raised
        \/ /\ outcome = "chain_id"
           /\ Raise(outcome, "not retried")
           /\ UNCHANGED <<loop_vars, transaction_queue, read_nonces, evaluated,
                          sign_calls>>
        \/ /\ outcome = "sign"
           /\ sign_calls' = sign_calls + 1
           /\ IF tries + 1 < sign_max_tries
              THEN /\ tries' = tries + 1
                   /\ UNCHANGED <<pc, raised>>
              ELSE Raise(outcome, "not retried")
           /\ UNCHANGED <<loop_vars, transaction_queue, read_nonces, evaluated>>
    /\ UNCHANGED <<config_vars, chain_nonce, ext_sends, dispatch_vars,
                   threshold_difference, bank_nonce, probe, metrics,
                   kms, installer>>

\* ------------------------------------------------------------------------
\* Transaction stats, confirmation and dispatch (lines 150-169)
\* ------------------------------------------------------------------------

network == Networks[ni]

\* line 152-153, 168-169: the loop over the queues; an empty queue is reported
\* and skipped
TransactionStats ==
    /\ pc = "transaction_stats"
    /\ IF ni > Len(Networks)
       THEN /\ pc' = "done"
            /\ UNCHANGED ni
       ELSE IF Len(transaction_queue[network]) > 0
       THEN /\ pc' = "bank_balance"
            /\ UNCHANGED ni
       ELSE /\ ni' = ni + 1
            /\ UNCHANGED pc
    /\ UNCHANGED <<config_vars, chain_nonce, ext_sends, loop_vars, ti, tries,
                   threshold_difference, bank_nonce, transaction_queue,
                   read_nonces, evaluated, reported, prompted, confirmed,
                   attempted, sent, raised, probe, sign_calls, metrics,
                   kms, installer>>

\* the transactions queued on the first k networks, one queue after the other
RECURSIVE QueuedUpTo(_)
QueuedUpTo(k) ==
    IF k = 0 THEN <<>> ELSE QueuedUpTo(k - 1) \o transaction_queue[Networks[k]]

\* faulty variant of amount_sum: the values of every network's queue are summed
amount_sum_all_networks == SumValues(QueuedUpTo(Len(Networks)))

\* line 154: sum(tx[0]["value"] for tx in transaction_queue[network])
amount_sum == SumValues(transaction_queue[network])

\* lines 154-157: the sum of the queued values, the bank's balance (get_balance,
\* retried up to 8 times) and the summary echoed to the operator
BankBalance ==
    /\ pc = "bank_balance"
    /\ \E outcome \in AttemptOutcomes :
        \/ /\ outcome = "ok"
           /\ reported' = [reported EXCEPT ![network] =
                              [count |-> Len(transaction_queue[network]),
                               total |-> amount_sum]]
           /\ pc' = "confirm"
           /\ tries' = 0
           /\ UNCHANGED raised
        \/ /\ outcome = "ValueError"
           /\ RetryOrRaise(BalanceMaxTries, "bank get_balance")
           /\ UNCHANGED reported
        \/ /\ outcome = "other"
           /\ Raise("bank get_balance", "not retried")
           /\ UNCHANGED reported
    /\ UNCHANGED <<config_vars, chain_nonce, ext_sends, loop_vars, ni, ti,
                   threshold_difference, bank_nonce, transaction_queue,
                   read_nonces, evaluated, prompted, confirmed, attempted, sent,
                   probe, sign_calls, metrics,
                   kms, installer>>

\* faulty variant of abort: click.confirm without abort=True returns a no
\* instead of raising
abort_false == FALSE

\* line 159: click.confirm(..., abort=True) raises click.Abort on a no
abort == TRUE

\* line 159: the operator's answer; top_up ignores the value click.confirm
\* returns, so only the exception keeps a declined queue from being dispatched
Confirm ==
    /\ pc = "confirm"
    /\ prompted' = Append(prompted, network)
    /\ \E answer \in BOOLEAN :
        /\ confirmed' = IF answer THEN confirmed \cup {network} ELSE confirmed
        /\ IF answer \/ ~abort
           THEN /\ ti' = 1
                /\ pc' = "dispatch"
                /\ UNCHANGED raised
           ELSE /\ pc' = "aborted"
                /\ raised' = [op |-> "confirm", why |-> "Abort"]
                /\ UNCHANGED ti
    /\ UNCHANGED <<config_vars, chain_nonce, ext_sends, loop_vars, ni, tries,
                   threshold_difference, bank_nonce, transaction_queue,
                   read_nonces, evaluated, reported, attempted, sent,
                   probe, sign_calls, metrics,
                   kms, installer>>

\* faulty variant of transaction_tuple: the queue is walked from its end
transaction_tuple_reversed ==
    transaction_queue[network][Len(transaction_queue[network]) - ti + 1]

\* line 163: the transaction the loop over the queue is at
transaction_tuple == transaction_queue[network][ti]

\* faulty variant of more_transactions: the loop stops one transaction early
more_transactions_but_last == ti + 1 < Len(transaction_queue[network])

\* line 163: the for loop over transaction_queue[network] has a next element
more_transactions == ti < Len(transaction_queue[network])

\* lines 163-167: one submission of the current transaction
\* (dispatch_signed_transaction, retried up to 8 times); nothing catches the
\* exception it re-raises, so a failed submission ends the run
Dispatch ==
    /\ pc = "dispatch"
    /\ attempted' = [attempted EXCEPT ![network] =
                        IF tries = 0 THEN Append(@, transaction_tuple) ELSE @]
    /\ \E outcome \in AttemptOutcomes :
        \/ /\ outcome = "ok"
           /\ sent' = [sent EXCEPT ![network] = Append(@, transaction_tuple)]
           /\ chain_nonce' = [chain_nonce EXCEPT ![network] = @ + 1]
           /\ tries' = 0
           /\ IF more_transactions
              THEN /\ ti' = ti + 1
                   /\ UNCHANGED <<ni, pc>>
              ELSE /\ ni' = ni + 1
                   /\ pc' = "transaction_stats"
                   /\ UNCHANGED ti
           /\ UNCHANGED raised
        \/ /\ outcome = "ValueError"
           /\ RetryOrRaise(DispatchMaxTries, "dispatch_signed_transaction")
           /\ UNCHANGED <<sent, chain_nonce, ni, ti>>
        \/ /\ outcome = "other"
           /\ Raise("dispatch_signed_transaction", "not retried")
           /\ UNCHANGED <<sent, chain_nonce, ni, ti>>
    /\ UNCHANGED <<config_vars, ext_sends, loop_vars, threshold_difference,
                   bank_nonce, transaction_queue, read_nonces, evaluated,
                   reported, prompted, confirmed, probe, sign_calls, metrics,
                   kms, installer>>

\* ------------------------------------------------------------------------
\* The environment
\* ------------------------------------------------------------------------

\* another process sends a transaction from the bank of network n: the bank's
\* on-chain transaction count, which get_nonce reads, goes up by one
ExternalSend ==
    /\ ~Terminated
    /\ ext_sends < MaxExternalSends
    /\ \E n \in NetworkNames :
        chain_nonce' = [chain_nonce EXCEPT ![n] = @ + 1]
    /\ ext_sends' = ext_sends + 1
    /\ UNCHANGED <<config_vars, pc, loop_vars, dispatch_vars, tries,
                   threshold_difference, bank_nonce, transaction_queue,
                   read_nonces, evaluated, raised, probe, sign_calls, metrics,
                   kms, installer>>

Next ==
    \/ IsWalletBelowThreshold
    \/ GetNonce
    \/ CreateTransaction
    \/ TransactionStats
    \/ BankBalance
    \/ Confirm
    \/ Dispatch
    \/ ExternalSend

Spec == Init /\ [][Next]_vars

\* the steps of top_up itself
TopUp ==
    \/ IsWalletBelowThreshold
    \/ GetNonce
    \/ CreateTransaction
    \/ TransactionStats
    \/ BankBalance
    \/ Confirm
    \/ Dispatch

\* top_up is one thread that nothing suspends, every chain-client call returns
\* or raises, and the operator answers every prompt
TopUpLiveSpec == Spec /\ WF_vars(TopUp)

\* ------------------------------------------------------------------------
\* is_wallet_below_threshold on its own, for every lower bound, upper bound
\* and balance in 0..MaxProbe
\* ------------------------------------------------------------------------

ProbeValues == 0..MaxProbe

EvalInit ==
    /\ probe \in [wallet_wei : ProbeValues, lower_bound : ProbeValues,
                   upper_bound : ProbeValues, results : {<<>>}]
    /\ document = "valid"
    /\ conf = "dict"
    /\ threshold = [n \in NetworkNames |-> 5]
    /\ balance = [p \in Monitored |-> 1]
    /\ pc = "probe"
    /\ RunInit

\* faulty variant of wallet_wei_after: the evaluator credits the address with
\* the amount it returns
wallet_wei_after_credited(wallet_wei, difference) ==
    IF difference.isInt THEN wallet_wei + difference.val ELSE wallet_wei

\* utils.py line 11: get_balance is a read (w3.eth.get_balance), the balance
\* the chain holds is the same after the evaluation as before
wallet_wei_after(wallet_wei, difference) == wallet_wei

\* utils.py lines 7-18, called with the balance the chain holds; nothing else
\* changes the balance between two calls
Evaluate ==
    /\ pc = "probe"
    /\ Len(probe.results) < 2
    /\ LET difference == is_wallet_below_threshold(probe.wallet_wei,
                                                   probe.lower_bound,
                                                   probe.upper_bound)
       IN  probe' = [probe EXCEPT
                        !.results = Append(@, difference),
                        !.wallet_wei = wallet_wei_after(@, difference)]
    /\ UNCHANGED <<config_vars, chain_nonce, ext_sends, pc, loop_vars,
                   dispatch_vars, tries, threshold_difference, bank_nonce,
                   transaction_queue, read_nonces, evaluated, raised,
                   sign_calls, metrics,
                   kms, installer>>

EvalNext == Evaluate

EvalSpec == EvalInit /\ [][EvalNext]_vars

\* ------------------------------------------------------------------------
\* monitor (keymaster.py lines 47-92)
\* ------------------------------------------------------------------------

\* what monitor leaves alone
top_up_vars == <<config_vars, chain_nonce, ext_sends, ri, ti,
                 threshold_difference, bank_nonce, transaction_queue,
                 read_nonces, evaluated, reported, prompted, confirmed,
                 attempted, sent, probe, sign_calls, kms, installer>>

\* lines 53-63: the gauges are created and the metrics server is started
MonitorInit ==
    /\ document = "valid"
    /\ conf = "dict"
    /\ threshold = [n \in NetworkNames |-> 5]
    /\ balance = [p \in Monitored |-> 1]
    /\ probe = NoProbe
    /\ pc = "start_http_server"
    /\ RunInit

\* line 63: start_http_server(metrics_port); an exception (the port is taken)
\* ends monitor
StartHttpServer ==
    /\ pc = "start_http_server"
    /\ \E outcome \in {"ok", "other"} :
        \/ /\ outcome = "ok"
           /\ metrics' = [metrics EXCEPT !.server = TRUE]
           /\ pc' = "get_block_number"
           /\ UNCHANGED <<raised, tries>>
        \/ /\ outcome = "other"
           /\ Raise("start_http_server", "not retried")
           /\ UNCHANGED metrics
    /\ UNCHANGED <<top_up_vars, ni, hi, ai>>

\* lines 70-76: w3.eth.get_block_number() is called on the client itself, not
\* through utils.get_block_height: no backoff decorator, no try/except, so any
\* exception, a ValueError too, leaves monitor; on success the block_number
\* gauge of the network is set
MonitorBlockNumber ==
    /\ pc = "get_block_number"
    /\ \E outcome \in AttemptOutcomes :
        \/ /\ outcome = "ok"
           /\ metrics' = [metrics EXCEPT !.block_number[network] = @ + 1]
           /\ hi' = 1
           /\ ai' = 1
           /\ pc' = "get_balance"
           /\ UNCHANGED <<raised, tries>>
        \/ /\ outcome = "ValueError"
           /\ Raise("get_block_number", "ValueError")
           /\ UNCHANGED <<metrics, hi, ai>>
        \/ /\ outcome = "other"
           /\ Raise("get_block_number", "not retried")
           /\ UNCHANGED <<metrics, hi, ai>>
    /\ UNCHANGED <<top_up_vars, ni>>

\* line 83: get_balance(account, endpoint), retried up to 8 times
MonitorGetBalance ==
    /\ pc = "get_balance"
    /\ \E outcome \in AttemptOutcomes :
        \/ /\ outcome = "ok"
           /\ pc' = "monitor_get_nonce"
           /\ tries' = 0
           /\ UNCHANGED raised
        \/ /\ outcome = "ValueError"
           /\ RetryOrRaise(BalanceMaxTries, "get_balance")
        \/ /\ outcome = "other"
           /\ Raise("get_balance", "not retried")
    /\ UNCHANGED <<top_up_vars, ni, hi, ai, metrics>>

\* faulty variant of gauge_labels: the home's name as the network label
gauge_labels_home_network ==
    [role |-> Addresses(home)[ai].role, home |-> home, address |-> address,
     network |-> home]

\* lines 89-90: labels(role=role, home=home_name, address=account, network=name)
gauge_labels ==
    [role |-> Addresses(home)[ai].role, home |-> home, address |-> address,
     network |-> network]

\* lines 70, 79, 80: the next (network, home, address) of the poll cycle, or
\* the sleep once every network is done
MonitorAdvance ==
    IF ai < Len(Addresses(home))
    THEN /\ ai' = ai + 1
         /\ pc' = "get_balance"
         /\ UNCHANGED <<hi, ni>>
    ELSE IF hi < Len(Homes)
    THEN /\ hi' = hi + 1
         /\ ai' = 1
         /\ pc' = "get_balance"
         /\ UNCHANGED ni
    ELSE IF ni < Len(Networks)
    THEN /\ ni' = ni + 1
         /\ pc' = "get_block_number"
         /\ UNCHANGED <<hi, ai>>
    ELSE /\ pc' = "sleep"
         /\ UNCHANGED <<hi, ai, ni>>

\* lines 86-90: get_nonce(account, endpoint), retried up to 18 times, then
\* both gauges of the (role, home, address, network) labels are set
MonitorGetNonce ==
    /\ pc = "monitor_get_nonce"
    /\ \E outcome \in AttemptOutcomes :
        \/ /\ outcome = "ok"
           /\ metrics' = [metrics EXCEPT
                             !.wallet_balance[gauge_labels] = @ + 1,
                             !.transaction_count[gauge_labels] = @ + 1]
           /\ MonitorAdvance
           /\ tries' = 0
           /\ UNCHANGED raised
        \/ /\ outcome = "ValueError"
           /\ RetryOrRaise(NonceMaxTries, "get_nonce")
           /\ UNCHANGED <<metrics, ni, hi, ai>>
        \/ /\ outcome = "other"
           /\ Raise("get_nonce", "not retried")
           /\ UNCHANGED <<metrics, ni, hi, ai>>
    /\ UNCHANGED top_up_vars

\* faulty variant of after_sleep: the loop body runs once
after_sleep_return == "done"

\* line 68: while True, the loop body starts over after the sleep
after_sleep == "get_block_number"

\* lines 91-92 and 68: time.sleep(pause_duration), then the next poll cycle;
\* the gauges' per-cycle counts start over
MonitorSleep ==
    /\ pc = "sleep"
    /\ pc' = after_sleep
    /\ ni' = 1
    /\ hi' = 1
    /\ ai' = 1
    /\ metrics' = [NoMetrics EXCEPT !.server = metrics.server]
    /\ UNCHANGED <<top_up_vars, tries, raised>>

MonitorNext ==
    \/ StartHttpServer
    \/ MonitorBlockNumber
    \/ MonitorGetBalance
    \/ MonitorGetNonce
    \/ MonitorSleep

MonitorSpec == MonitorInit /\ [][MonitorNext]_vars

\* monitor is one thread that nothing suspends: it always takes its next step
MonitorLiveSpec == MonitorSpec /\ WF_vars(MonitorNext)

\* ------------------------------------------------------------------------
\* cli (keymaster.py lines 18-41, 173-174) and load_config (config.py)
\* ------------------------------------------------------------------------

\* config.py lines 4-24: what load_config(path) can return. A document that
\* parses comes back as config.to_dict(), unvalidated (lines 13-21 are a TODO);
\* a json.decoder.JSONDecodeError is caught and False returned; any other
\* exception of ConfigBuilder.parse_config (an absent file) is not caught.
\* Which of the two an absent file raises is the parser's business.
load_config(path) ==
    CASE path \in Loadable  -> {"dict"}
      [] path = "empty"     -> {"{}"}
      [] path = "malformed" -> {"False"}
      [] path = "missing"   -> {"False", "raised"}

\* faulty variant of conf_truthy: the result of load_config is not tested
conf_not_checked(c) == TRUE

\* keymaster.py line 28: `if conf:`, False and {} are falsy
conf_truthy(c) == c = "dict"

\* the subcommands of the click group (lines 43 and 94)
Commands == {"monitor", "top_up"}

\* where a subcommand's body starts
BodyOf(command) ==
    IF command = "top_up" THEN "is_wallet_below_threshold"
    ELSE "start_http_server"

ProgramInit ==
    /\ document \in Documents
    /\ conf = "unloaded"
    /\ IF document \in Loadable
       THEN /\ threshold \in [NetworkNames -> Thresholds]
            /\ balance \in [Monitored -> Balances]
       ELSE /\ threshold = [n \in NetworkNames |-> 5]
            /\ balance = [p \in Monitored |-> 1]
    /\ probe = NoProbe
    /\ pc = "cli"
    /\ RunInit

\* keymaster.py lines 22-33: the group callback, which click runs before the
\* subcommand's body: load the document, keep it in ctx.obj or sys.exit(1)
Cli ==
    /\ pc = "cli"
    /\ \E result \in load_config(document) :
        /\ conf' = result
        /\ IF result = "raised"
           THEN Raise("load_config", "not caught")
           ELSE IF conf_truthy(result)
           THEN /\ \E command \in Commands : pc' = BodyOf(command)
                /\ UNCHANGED <<raised, tries>>
           ELSE Raise("cli", "sys.exit(1)")
    /\ UNCHANGED <<threshold, balance, document, chain_nonce, ext_sends,
                   loop_vars, dispatch_vars, threshold_difference, bank_nonce,
                   transaction_queue, read_nonces, evaluated, probe,
                   sign_calls, metrics,
                   kms, installer>>

\* faulty variant of ExitCode: an Abort counted as a normal return
ExitCodeAbortZero(exception) ==
    IF exception = NoException \/ exception.why = "Abort" THEN 0 ELSE 1

\* lines 173-174, cli(obj={}): the status the process ends with. click's
\* standalone mode returns 0 when the command returns, prints "Aborted!" and
\* exits 1 on the click.Abort of line 159; sys.exit(1) (line 33) and an
\* uncaught exception (traceback) end the interpreter with status 1.
ExitCode(exception) == IF exception = NoException THEN 0 ELSE 1

\* the exit status of a process that has ended
exit_code == ExitCode(raised)

ProgramNext ==
    \/ Cli
    \/ Next
    \/ MonitorNext

ProgramSpec == ProgramInit /\ [][ProgramNext]_vars

\* ------------------------------------------------------------------------
\* provision_kms_keys.py
\* ------------------------------------------------------------------------

\* aliases of other owners in the account range over 0..MaxForeignAliases
MaxForeignAliases == 100

\* the script is run up to MaxRuns times on the same account
MaxRuns == 2

\* provision_kms_keys.py:123, kms.list_aliases(Limit=100)
ListLimit == 100

\* lines 70-73
environments == <<"staging", "production">>

\* lines 56-67, one network per environment
kms_networks(environment) ==
    IF environment = "staging" THEN <<"alfajores">> ELSE <<"celo">>

\* lines 37-54, two agent keys for staging and one for production
agent_keys(environment) ==
    IF environment = "staging"
    THEN <<"watcher-signer", "kathy-signer">>
    ELSE <<"watcher-signer">>

\* lines 126-128 for one (environment, network): the keys in loop order
KeysOfNetwork(environment, network_name) ==
    [k \in 1..Len(agent_keys(environment)) |->
        [environment |-> environment, network |-> network_name,
         key |-> agent_keys(environment)[k]]]

\* lines 126-127 for one environment: its networks one after the other
RECURSIVE KeysOfEnvironment(_, _)
KeysOfEnvironment(environment, n) ==
    IF n = 0 THEN <<>>
    ELSE KeysOfEnvironment(environment, n - 1)
             \o KeysOfNetwork(environment, kms_networks(environment)[n])

\* lines 126-128: every (environment, network, key) in loop order
RECURSIVE KeysUpTo(_)
KeysUpTo(e) ==
    IF e = 0 THEN <<>>
    ELSE KeysUpTo(e - 1)
             \o KeysOfEnvironment(environments[e], Len(kms_networks(environments[e])))

ProvisionOrder == KeysUpTo(Len(environments))

\* lines 130-131: alias/{environment}-{network}-{key}
alias_name(k) == <<"alias", k.environment, k.network, k.key>>

ScriptAliases == {alias_name(ProvisionOrder[i]) : i \in 1..Len(ProvisionOrder)}

\* line 123: one page of at most Limit aliases, whichever KMS puts on it: the
\* script's aliases V on the page, the rest of the page being foreign ones
ListedPage(V) ==
    LET total == kms.foreign + Cardinality(kms.aliases)
        page == IF total < ListLimit THEN total ELSE ListLimit
    IN  /\ V \subseteq kms.aliases
        /\ Cardinality(V) <= page
        /\ page - Cardinality(V) <= kms.foreign

\* keymaster is not the program that runs: its state stays as it is
KeymasterNotRun(program) ==
    /\ document = "valid"
    /\ conf = "dict"
    /\ threshold = [n \in NetworkNames |-> 5]
    /\ balance = [p \in Monitored |-> 1]
    /\ probe = NoProbe
    /\ pc = program
    /\ chain_nonce = [n \in NetworkNames |-> InitialNonce(n)]
    /\ ext_sends = 0
    /\ hi = 1 /\ ai = 1 /\ ri = 0
    /\ ni = 1 /\ ti = 1
    /\ tries = 0
    /\ threshold_difference = PyFalse
    /\ bank_nonce = 0
    /\ transaction_queue = [n \in NetworkNames |-> <<>>]
    /\ read_nonces = [n \in NetworkNames |-> <<>>]
    /\ evaluated = NoEvaluation
    /\ reported = [n \in NetworkNames |-> NoReport]
    /\ prompted = <<>>
    /\ confirmed = {}
    /\ attempted = [n \in NetworkNames |-> <<>>]
    /\ sent = [n \in NetworkNames |-> <<>>]
    /\ raised = NoException
    /\ sign_calls = 0
    /\ metrics = NoMetrics

KmsInit ==
    /\ KeymasterNotRun("provision_kms_keys")
    /\ installer = NoInstaller
    /\ \E f \in 0..MaxForeignAliases : \E present \in SUBSET ScriptAliases :
           kms = [NoKms EXCEPT !.pc = "list_aliases", !.run = 1,
                               !.foreign = f, !.aliases = present,
                               !.keys = Cardinality(present)]

\* what provision_kms_keys.py leaves alone
not_kms_vars == <<config_vars, chain_nonce, ext_sends, pc, loop_vars,
                  dispatch_vars, tries, threshold_difference, bank_nonce,
                  transaction_queue, read_nonces, evaluated, raised, probe,
                  sign_calls, metrics, installer>>

\* line 123: current_aliases = kms.list_aliases(Limit=100), read once per run
ListAliases ==
    /\ kms.pc = "list_aliases"
    /\ \E V \in SUBSET kms.aliases :
        /\ ListedPage(V)
        /\ kms' = [kms EXCEPT !.current_aliases = V, !.pc = "provision", !.i = 1]
    /\ UNCHANGED not_kms_vars

\* lines 130-186: one (environment, network, key). No alias of that name on
\* the listed page: create_key, then create_alias, which KMS refuses with
\* AlreadyExistsException when the account does hold the alias; otherwise
\* describe_key of the alias's key. Then the row of the table
Provision ==
    /\ kms.pc = "provision"
    /\ LET a == alias_name(ProvisionOrder[kms.i])
           existing_alias == a \in kms.current_aliases
           last == kms.i = Len(ProvisionOrder)
       IN  IF ~existing_alias /\ a \in kms.aliases
           THEN kms' = [kms EXCEPT !.keys = @ + 1, !.new_keys = @ + 1,
                                   !.pc = "crashed"]
           ELSE kms' = [kms EXCEPT
                           !.keys = IF existing_alias THEN @ ELSE @ + 1,
                           !.new_keys = IF existing_alias THEN @ ELSE @ + 1,
                           !.aliases = @ \cup {a},
                           !.new_aliases = IF existing_alias THEN @ ELSE @ + 1,
                           !.data_rows = Append(@, a),
                           !.i = IF last THEN @ ELSE @ + 1,
                           !.pc = IF last THEN "done" ELSE "provision",
                           !.completed = IF last THEN @ + 1 ELSE @]
    /\ UNCHANGED not_kms_vars

\* the script is started again on the same account
RunAgain ==
    /\ kms.pc \in {"done", "crashed"}
    /\ kms.run < MaxRuns
    /\ kms' = [kms EXCEPT !.run = @ + 1, !.pc = "list_aliases", !.i = 0,
                          !.current_aliases = {}, !.new_keys = 0,
                          !.new_aliases = 0, !.data_rows = <<>>]
    /\ UNCHANGED not_kms_vars

KmsNext ==
    \/ ListAliases
    \/ Provision
    \/ RunAgain

KmsSpec == KmsInit /\ [][KmsNext]_vars

\* ------------------------------------------------------------------------
\* i.py: initialize_osmosis_home
\* ------------------------------------------------------------------------

\* the prompt is answered at most MaxPrompts times
MaxPrompts == 2

\* i.py:115-117, class Answer(str, Enum); a string is its sequence of characters
YES == <<"1">>
NO == <<"2">>

\* what the user may type at the prompt of line 476
Inputs ==
    { <<"1">>, <<" ", "1", " ">>, <<"2">>, <<"2", " ">>,
      <<"e", "x", "i", "t">>, <<" ", "E", "x", "i", "T">>,
      <<"y", "e", "s">>, <<"Y">>, <<"1", " ", "2">>, <<" ">>, <<>> }

Whitespace == {" "}

\* str.strip(): leading and trailing whitespace removed
RECURSIVE strip(_)
strip(str) ==
    IF str = <<>> THEN str
    ELSE IF Head(str) \in Whitespace THEN strip(Tail(str))
    ELSE IF str[Len(str)] \in Whitespace THEN strip(SubSeq(str, 1, Len(str) - 1))
    ELSE str

\* str.lower() on the characters of Inputs
lower_char(c) ==
    CASE c = "E" -> "e"
      [] c = "X" -> "x"
      [] c = "I" -> "i"
      [] c = "T" -> "t"
      [] c = "Y" -> "y"
      [] OTHER -> c

lower(str) == [k \in 1..Len(str) |-> lower_char(str[k])]

\* line 478: choice.lower() == "exit"
is_exit(choice) == lower(choice) = <<"e", "x", "i", "t">>

\* the prompt loop ended by anything but "2"
proceeds_unless_no(choice) == choice # NO

\* line 482: if choice == Answer.YES: break
proceeds(choice) == choice = YES

InstallerInit ==
    /\ KeymasterNotRun("i.py")
    /\ kms = NoKms
    /\ \E o \in BOOLEAN :
           installer = [NoInstaller EXCEPT !.pc = "start", !.overwrite = o]

\* what initialize_osmosis_home leaves alone
not_installer_vars == <<config_vars, chain_nonce, ext_sends, pc, loop_vars,
                        dispatch_vars, tries, threshold_difference, bank_nonce,
                        transaction_queue, read_nonces, evaluated, raised,
                        probe, sign_calls, metrics, kms>>

\* line 458: if not args.overwrite
EnterInitializeOsmosisHome ==
    /\ installer.pc = "start"
    /\ installer' = [installer EXCEPT
                        !.pc = IF ~installer.overwrite THEN "prompt" ELSE "rm"]
    /\ UNCHANGED not_installer_vars

\* lines 460-489: one turn of the prompt loop. input() returns a line, or
\* raises EOFError on a closed stdin, which nothing catches
Prompt ==
    /\ installer.pc = "prompt"
    /\ Len(installer.answers) < MaxPrompts
    /\ \/ \E line \in Inputs :
            LET choice == strip(line)
            IN  installer' = [installer EXCEPT
                    !.answers = Append(@, line),
                    !.pc = IF is_exit(choice) THEN "exited"
                           ELSE IF proceeds(choice) THEN "rm"
                           ELSE IF choice = NO THEN "exited"
                           ELSE "prompt",
                    !.status = IF is_exit(choice) THEN "0"
                               ELSE IF proceeds(choice) THEN @
                               ELSE IF choice = NO THEN "0"
                               ELSE @]
       \/ installer' = [installer EXCEPT !.pc = "exited", !.status = "1"]
    /\ UNCHANGED not_installer_vars

\* lines 493-495 and 503-507: rm -rf osmosis_home; a failing rm may have
\* removed part of the directory
Rm ==
    /\ installer.pc = "rm"
    /\ \/ installer' = [installer EXCEPT !.home = "deleted", !.pc = "init"]
       \/ \E left \in {"old", "partly deleted"} :
            installer' = [installer EXCEPT !.home = left, !.pc = "exited",
                                           !.status = "1"]
    /\ UNCHANGED not_installer_vars

\* lines 497-509: osmosisd init, then clear_screen and return
OsmosisdInit ==
    /\ installer.pc = "init"
    /\ \/ installer' = [installer EXCEPT !.home = "initialized",
                                         !.pc = "returned"]
       \/ installer' = [installer EXCEPT !.pc = "exited", !.status = "1"]
    /\ UNCHANGED not_installer_vars

InstallerNext ==
    \/ EnterInitializeOsmosisHome
    \/ Prompt
    \/ Rm
    \/ OsmosisdInit

InstallerSpec == InstallerInit /\ [][InstallerNext]_vars

\* ------------------------------------------------------------------------
\* Properties
\* ------------------------------------------------------------------------

IsPrefix(s, t) == Len(s) <= Len(t) /\ s = SubSeq(t, 1, Len(s))

Range(s) == {s[i] : i \in 1..Len(s)}

PositionOf(n) == CHOOSE k \in 1..Len(Networks) : Networks[k] = n

QueuePositions(n) == 1..Len(transaction_queue[n])

\* C1 as stated: the nonces of a network's queue are base_nonce, base_nonce+1,
\* ..., base_nonce+N-1 in append order, base_nonce being the bank's nonce read
\* when the first transaction of that queue was built.
C1_NoncesContiguousFromBase ==
    \A n \in NetworkNames : \A i \in QueuePositions(n) :
        transaction_queue[n][i].nonce = read_nonces[n][1] + (i - 1)

\* C1 amended: every queued transaction's nonce is the bank's on-chain nonce
\* read for its own (address, chain) pair plus the length of the queue when
\* it was appended; as long as no other process has sent from a bank, the
\* queue's nonces are base_nonce, ..., base_nonce+N-1 with base_nonce the
\* bank's on-chain nonce at the start of the run.
C1_NonceIsReadNoncePlusQueueLength ==
    \A n \in NetworkNames :
        /\ Len(read_nonces[n]) = Len(transaction_queue[n])
        /\ \A i \in QueuePositions(n) :
            /\ transaction_queue[n][i].nonce = read_nonces[n][i] + (i - 1)
            /\ ext_sends = 0 =>
                   transaction_queue[n][i].nonce = InitialNonce(n) + (i - 1)

\* three top-ups queued on one network while no other process used the bank
C1_Witness ==
    /\ Len(transaction_queue["beta"]) = 3
    /\ Len(transaction_queue["alpha"]) = 1
    /\ ext_sends = 0

\* C2: on every network the submissions started so far are a prefix of the
\* queue in append order, and a submission starts only when every earlier
\* one of that queue has returned its hash.
C2_DispatchInAppendOrder ==
    \A n \in NetworkNames :
        /\ IsPrefix(attempted[n], transaction_queue[n])
        /\ IsPrefix(sent[n], attempted[n])
        /\ Len(attempted[n]) - Len(sent[n]) <= 1

\* a queue of three being drained: two accepted, the third submitted
C2_Witness ==
    /\ Len(sent["beta"]) = 2
    /\ Len(attempted["beta"]) = 3

\* C3: a transaction is submitted only on a network whose queue the operator
\* confirmed in this run; a network with an empty queue is never prompted for
\* nor dispatched on, and a finished run has prompted for exactly the
\* networks with a non-empty queue.
C3_DispatchOnlyAfterConfirmation ==
    /\ \A n \in NetworkNames :
        /\ attempted[n] # <<>> => n \in confirmed
        /\ n \in Range(prompted) => transaction_queue[n] # <<>>
        /\ transaction_queue[n] = <<>> => attempted[n] = <<>>
    /\ pc = "dispatch" => network \in confirmed
    /\ pc = "done" =>
           \A n \in NetworkNames :
               n \in Range(prompted) <=> transaction_queue[n] # <<>>

\* the first network's queue was empty and skipped, the second one was
\* confirmed and dispatched
C3_Witness ==
    /\ pc = "done"
    /\ transaction_queue["alpha"] = <<>>
    /\ prompted = <<"beta">>
    /\ sent["beta"] # <<>>

\* C4 as stated: in a run in which the operator declined a confirmation, the
\* set of transactions dispatched by the whole run is empty.
C4_DeclineMeansNothingDispatched ==
    (\E n \in Range(prompted) : n \notin confirmed) =>
        \A m \in NetworkNames : attempted[m] = <<>>

\* C4 amended: once the operator declined the confirmation for a network, no
\* transaction is dispatched on that network or on any network after it in
\* the iteration order, and none of those is prompted for; the queues
\* confirmed before it have been dispatched and stay so.
C4_DeclineStopsPendingQueues ==
    \A n \in Range(prompted) :
        n \notin confirmed =>
            /\ pc = "aborted"
            /\ \A m \in NetworkNames :
                   PositionOf(m) >= PositionOf(n) => attempted[m] = <<>>
            /\ \A m \in NetworkNames :
                   PositionOf(m) > PositionOf(n) => m \notin Range(prompted)

\* the operator declined the first network while the second one had a queue
C4_Witness ==
    /\ pc = "aborted"
    /\ prompted = <<"alpha">>
    /\ transaction_queue["beta"] # <<>>

\* C5: a run that ended after a submission exhausted its retries has still
\* attempted every transaction of that network's queue.
C5_BestEffortDrain ==
    (Terminated /\ raised.op = "dispatch_signed_transaction"
                /\ raised.why = "retries exhausted") =>
        Len(attempted[network]) = Len(transaction_queue[network])

\* C6: a balance or nonce fetch that exhausts its retries during queue
\* construction does not abort the run.
C6_ReadFailureIsolated ==
    ~(/\ pc = "crashed"
      /\ raised.op \in {"get_balance", "get_nonce"}
      /\ raised.why = "retries exhausted")

\* C7: create_transaction is never entered with an amount that is not
\* positive, and no queued or submitted transaction has such a value.
C7_NoNonPositiveValue ==
    /\ pc = "create_transaction" => threshold_difference.val > 0
    /\ \A n \in NetworkNames :
        /\ \A i \in QueuePositions(n) : transaction_queue[n][i].value > 0
        /\ \A i \in 1..Len(attempted[n]) : attempted[n][i].value > 0

\* C8: called with balance < lower_bound <= upper_bound, the evaluator
\* returns the integer upper_bound - balance, which is positive.
C8_TopUpTargetsUpperBound ==
    \A k \in 1..Len(probe.results) :
        (probe.wallet_wei < probe.lower_bound
            /\ probe.upper_bound >= probe.lower_bound) =>
            /\ probe.results[k].isInt
            /\ probe.results[k].val = probe.upper_bound - probe.wallet_wei
            /\ probe.results[k].val > 0
            /\ Truthy(probe.results[k])

\* the evaluator was called below the lower bound, the upper bound above it
C8_Witness ==
    /\ Len(probe.results) > 0
    /\ probe.wallet_wei < probe.lower_bound
    /\ probe.lower_bound < probe.upper_bound

\* C9: for every balance >= lower_bound the evaluator returns False whatever
\* the upper bound, and top_up queues nothing for a pair whose balance is
\* at or above the lower bound: the evaluation it just finished appended
\* nothing, and no queued transaction pays an address that holds at least
\* the lower bound on that network.
C9_NoActionAtOrAboveLowerBound ==
    /\ \A w \in ProbeValues : \A l \in ProbeValues : \A u \in ProbeValues :
           w >= l => /\ is_wallet_below_threshold(w, l, u) = PyFalse
                     /\ ~Truthy(is_wallet_below_threshold(w, l, u))
    /\ (evaluated.chain # "none"
           /\ balance[evaluated.chain, evaluated.address] >=
                  (IF evaluated.chain = evaluated.home
                   THEN home_lower_bound ELSE replica_lower_bound)) =>
           /\ evaluated.difference = PyFalse
           /\ evaluated.position = 0
    /\ \A n \in NetworkNames : \A i \in QueuePositions(n) :
           \/ balance[n, transaction_queue[n][i].to] < home_lower_bound
           \/ balance[n, transaction_queue[n][i].to] < replica_lower_bound

\* an address holding exactly the lower bound was evaluated while another
\* pair was queued
C9_Witness ==
    /\ evaluated.chain # "none"
    /\ balance[evaluated.chain, evaluated.address] = home_lower_bound
    /\ evaluated.position = 0
    /\ \E n \in NetworkNames : transaction_queue[n] # <<>>

\* C10: whether the evaluation of an address on a replica queues a top-up,
\* and for how much, is decided by the address's balance on the replica and
\* the replica's threshold alone, and the transaction sits in the replica's
\* queue.
C10_ReplicaEvaluatedOnItsOwn ==
    (evaluated.chain # "none" /\ evaluated.chain # evaluated.home) =>
        LET r == evaluated.chain
            a == evaluated.address
            needed == /\ balance[r, a] < replica_lower_bound
                      /\ threshold[r] - balance[r, a] # 0
        IN  /\ evaluated.chain \in Range(Replicas(evaluated.home))
            /\ evaluated.position > 0 <=> needed
            /\ needed =>
                /\ evaluated.difference = PyInt(threshold[r] - balance[r, a])
                /\ evaluated.position \in QueuePositions(r)
                /\ transaction_queue[r][evaluated.position].to = a
                /\ transaction_queue[r][evaluated.position].value =
                       threshold[r] - balance[r, a]

\* the home chain needed no top-up for the address, its replica queued one
C10_Witness ==
    /\ evaluated.home = "alpha"
    /\ evaluated.chain = "beta"
    /\ evaluated.position > 0
    /\ balance["alpha", evaluated.address] >= home_lower_bound
    /\ transaction_queue["alpha"] = <<>>

\* transactions other processes sent from the bank of network n: what the
\* bank's on-chain nonce gained beyond the run's own accepted submissions
ExternalSendsOn(n) == chain_nonce[n] - InitialNonce(n) - Len(sent[n])

\* C11: on a chain whose bank no other process has sent from, every queued
\* transaction is submitted exactly when the bank's on-chain nonce equals the
\* transaction's nonce: the transaction the dispatch loop is at carries the
\* bank's current on-chain nonce, and the i-th accepted transaction carried
\* the nonce the bank had after i-1 accepted submissions. (That a concurrent
\* send makes a queued nonce stale is the reachable state C11_Witness.)
C11_SingleWriterNonceMatches ==
    \A n \in NetworkNames :
        ExternalSendsOn(n) = 0 =>
            /\ \A i \in 1..Len(sent[n]) :
                   sent[n][i].nonce = InitialNonce(n) + (i - 1)
            /\ (pc = "dispatch" /\ network = n) =>
                   transaction_tuple.nonce = chain_nonce[n]

\* alpha's bank had a single writer and its queue went out with matching
\* nonces; another process sent from beta's bank after beta's queue was
\* built, and the transaction the loop is at no longer matches beta's nonce
C11_Witness ==
    /\ ExternalSendsOn("alpha") = 0
    /\ Len(transaction_queue["alpha"]) > 0
    /\ sent["alpha"] = transaction_queue["alpha"]
    /\ pc = "dispatch"
    /\ network = "beta"
    /\ Len(transaction_queue["beta"]) > 1
    /\ ExternalSendsOn("beta") > 0
    /\ transaction_tuple.nonce # chain_nonce["beta"]

\* transactions built so far, over the first k networks
RECURSIVE BuiltUpTo(_)
BuiltUpTo(k) ==
    IF k = 0 THEN 0 ELSE Len(transaction_queue[Networks[k]]) + BuiltUpTo(k - 1)

\* C19: a signing error is never retried and ends the run. The signer has been
\* called once per built transaction, plus the one call that failed; once
\* sign_transaction has raised, the run is over with nothing prompted for,
\* submitted or accepted on any chain, and from then on no further pair is
\* evaluated and no queue grows.
C19_SigningFailureEndsRun ==
    /\ [](/\ sign_calls = BuiltUpTo(Len(Networks))
                            + (IF raised.op = "sign" THEN 1 ELSE 0)
          /\ raised.op = "sign" =>
                /\ pc = "crashed"
                /\ prompted = <<>>
                /\ \A n \in NetworkNames : attempted[n] = <<>> /\ sent[n] = <<>>)
    /\ [][raised.op = "sign" =>
             UNCHANGED <<evaluated, loop_vars, threshold_difference,
                         transaction_queue, sign_calls, dispatch_vars>>]_vars

\* signing failed for home beta's first address after two top-ups had been
\* built and signed; beta's second address is never reached
C19_Witness ==
    /\ raised.op = "sign"
    /\ BuiltUpTo(Len(Networks)) = 2
    /\ sign_calls = 3
    /\ hi = 2 /\ ai = 1
    /\ evaluated.home = "alpha"

\* the dispatch loop of network n has run to its end
DispatchLoopDone(n) == n \in confirmed /\ (pc = "done" \/ PositionOf(n) < ni)

\* C20: the summary echoed before a chain's prompt is exact. The reported
\* count is the length of that chain's queue and the reported total is the
\* sum of the values of that queue; the queue is what the dispatch loop walks
\* after a yes (the submissions started are a prefix of it), and once the
\* loop has run to its end the accepted transactions are that queue, so their
\* number and the sum of their values are the reported ones.
C20_SummaryIsExact ==
    \A n \in NetworkNames :
        reported[n] # NoReport =>
            /\ reported[n].count = Len(transaction_queue[n])
            /\ reported[n].total = SumValues(transaction_queue[n])
            /\ IsPrefix(attempted[n], transaction_queue[n])
            /\ DispatchLoopDone(n) =>
                   /\ Len(sent[n]) = reported[n].count
                   /\ SumValues(sent[n]) = reported[n].total

\* both chains were reported, confirmed and dispatched in full; beta's summary
\* counted three transactions, alpha's one
C20_Witness ==
    /\ pc = "done"
    /\ confirmed = NetworkNames
    /\ reported["alpha"].count = 1
    /\ reported["beta"].count = 3
    /\ reported["beta"].total > reported["alpha"].total
    /\ Len(sent["beta"]) = 3

\* the chain reads of monitor
MonitorFetches == {"get_block_number", "get_balance", "get_nonce"}

\* C12 as stated: every chain-client operation that fails transiently is
\* retried within its bound, in monitor too: at most 18 attempts of a nonce
\* query, at most 8 of a balance query and of a block-height query, and the
\* transient failure (a ValueError) leaves the call only once the attempts
\* are used up.
C12_TransientFailuresRetried ==
    /\ pc = "monitor_get_nonce" => tries < NonceMaxTries
    /\ pc = "get_balance" => tries < BalanceMaxTries
    /\ pc = "get_block_number" => tries < BlockHeightMaxTries
    /\ (pc = "crashed" /\ raised.op \in MonitorFetches) =>
           raised.why \in {"retries exhausted", "not retried"}

\* C13 as stated: monitor fails soft, a failed block-height, balance or nonce
\* fetch never ends the loop.
C13_MonitorFailsSoft ==
    ~(pc = "crashed" /\ raised.op \in MonitorFetches)

\* no gauge is set twice in a poll cycle
SetAtMostOnce ==
    /\ \A n \in NetworkNames : metrics.block_number[n] <= 1
    /\ \A l \in Labels :
           metrics.wallet_balance[l] <= 1 /\ metrics.transaction_count[l] <= 1

\* C14 as stated: when a poll cycle is over, the block height of every chain
\* has been exported, and the balance and nonce of every home's (role,
\* address) exactly once for the home's own chain and each of its replicas,
\* and for no other chain.
C14_ExportedOnMonitoredChainsOnly ==
    /\ SetAtMostOnce
    /\ pc = "sleep" =>
        /\ \A n \in NetworkNames : metrics.block_number[n] = 1
        /\ \A l \in Labels :
            /\ metrics.wallet_balance[l] =
                   (IF l.network \in ChainsOf(l.home) THEN 1 ELSE 0)
            /\ metrics.transaction_count[l] =
                   (IF l.network \in ChainsOf(l.home) THEN 1 ELSE 0)

\* C14 amended: when a poll cycle is over, the block height of every
\* configured chain has been exported once, and the balance and the nonce of
\* every home's (role, address) exactly once for every configured chain,
\* whether or not the chain is the home's own or one of its replicas, under
\* the labels (role, home, address, chain); while the cycle runs, the gauges
\* are set in the order of the loops and none twice.
C14_ExportedOnEveryConfiguredChain ==
    /\ SetAtMostOnce
    /\ \A l \in Labels :
           metrics.transaction_count[l] = metrics.wallet_balance[l]
    /\ pc = "get_balance" =>
           /\ metrics.block_number[network] = 1
           /\ metrics.wallet_balance[gauge_labels] = 0
    /\ pc = "sleep" =>
        /\ \A n \in NetworkNames : metrics.block_number[n] = 1
        /\ \A h \in 1..Len(Homes) : \A a \in 1..Len(Addresses(Homes[h])) :
           \A n \in NetworkNames :
               metrics.wallet_balance[[role |-> Addresses(Homes[h])[a].role,
                                       home |-> Homes[h],
                                       address |-> Addresses(Homes[h])[a].address,
                                       network |-> n]] = 1

\* a poll cycle is over and home beta's relayer B, which is on no replica,
\* has been exported for alpha as well as for beta
C14_Witness ==
    /\ pc = "sleep"
    /\ "alpha" \notin ChainsOf("beta")
    /\ metrics.wallet_balance[[role |-> "relayer", home |-> "beta",
                               address |-> "B", network |-> "alpha"]] = 1
    /\ metrics.transaction_count[[role |-> "relayer", home |-> "beta",
                                  address |-> "B", network |-> "beta"]] = 1

\* C15: monitor is one control loop that only a failure or an interruption
\* ends. Unless a fetch fails for good (or the metrics server cannot start),
\* poll cycles repeat forever: the loop reaches its sleep infinitely often and
\* every chain's block-height gauge and every address's balance and nonce
\* gauges are set again and again, cycle after cycle; and a new cycle starts
\* only from the sleep, one sleep between two consecutive cycles.
C15_PollCyclesRepeatForever ==
    /\ \/ <>(pc = "crashed")
       \/ /\ []<>(pc = "sleep")
          /\ \A n \in NetworkNames :
                 /\ []<>(metrics.block_number[n] = 0)
                 /\ []<>(metrics.block_number[n] = 1)
          /\ \A l \in Labels :
                 /\ []<>(metrics.wallet_balance[l] = 0)
                 /\ []<>(metrics.wallet_balance[l] = 1
                            /\ metrics.transaction_count[l] = 1)
    /\ [][(metrics'.block_number # metrics.block_number
              /\ metrics'.block_number = NoMetrics.block_number) =>
             (pc = "sleep" /\ pc' = "get_block_number")]_vars
    /\ [][pc = "sleep" =>
             (pc' = "get_block_number" /\ ni' = 1 /\ metrics'.server)]_vars

\* a poll cycle is over, every gauge set, and monitor is at its sleep
C15_Witness ==
    /\ pc = "sleep"
    /\ metrics.server
    /\ raised = NoException
    /\ \A n \in NetworkNames : metrics.block_number[n] = 1
    /\ \A l \in Labels : metrics.transaction_count[l] = 1

\* no subcommand body has run: nothing read, built, prompted for or sent, no
\* metrics server, no gauge
NoBodyRan ==
    /\ evaluated = NoEvaluation
    /\ threshold_difference = PyFalse
    /\ bank_nonce = 0
    /\ tries = 0
    /\ sign_calls = 0
    /\ prompted = <<>>
    /\ metrics = NoMetrics
    /\ \A n \in NetworkNames :
        /\ transaction_queue[n] = <<>>
        /\ read_nonces[n] = <<>>
        /\ attempted[n] = <<>>
        /\ sent[n] = <<>>

\* C16: configuration errors fail fast. With a malformed or missing document
\* the process never gets past the group callback: load_config returns False
\* or raises, the process ends with a non-zero status, and no subcommand body
\* runs (no balance or nonce read, no transaction built or dispatched, no
\* metrics server started).
C16_ConfigErrorsFailFast ==
    document \in {"malformed", "missing"} =>
        /\ pc \in {"cli", "crashed"}
        /\ NoBodyRan
        /\ pc = "cli" => conf = "unloaded"
        /\ pc = "crashed" =>
            /\ conf \in {"False", "raised"}
            /\ raised.op \in {"cli", "load_config"}
            /\ exit_code # 0

\* a malformed document: load_config returned False and cli called sys.exit(1)
C16_Witness ==
    /\ document = "malformed"
    /\ conf = "False"
    /\ pc = "crashed"
    /\ raised = [op |-> "cli", why |-> "sys.exit(1)"]
    /\ exit_code = 1

\* C17 as stated: a document that names a chain config["networks"] does not
\* have is rejected at load time, and neither top_up nor monitor starts
\* processing it.
C17_UnknownChainRejectedAtLoad ==
    document = "unknown replica" =>
        /\ conf # "dict"
        /\ pc \in {"cli", "crashed"}
        /\ NoBodyRan

\* the operator's answer to the last prompt was a no
LastPromptDeclined ==
    prompted # <<>> /\ prompted[Len(prompted)] \notin confirmed

\* C18 as stated: after an operator decline the run stops dispatching and the
\* process exits with exit code zero.
C18_DeclineExitsWithStatusZero ==
    LastPromptDeclined => (pc = "aborted" /\ exit_code = 0)

\* C18 amended: an operator decline raises click.Abort at the prompt, which
\* nothing in top_up catches: the run stops there, nothing of the declined
\* chain's queue is submitted, and the process exits with status 1, the
\* status of an aborted command; status 0 is that of a run that returned.
C18_DeclineExitsWithStatusOne ==
    /\ LastPromptDeclined =>
        /\ pc = "aborted"
        /\ raised = [op |-> "confirm", why |-> "Abort"]
        /\ attempted[prompted[Len(prompted)]] = <<>>
        /\ exit_code = 1
    /\ pc = "aborted" => LastPromptDeclined
    /\ pc = "done" => exit_code = 0

\* the operator confirmed alpha, whose queue went out, and declined beta
C18_Witness ==
    /\ prompted = <<"alpha", "beta">>
    /\ confirmed = {"alpha"}
    /\ sent["alpha"] # <<>>
    /\ pc = "aborted"
    /\ exit_code = 1

C23_DeclineAbortsRemainingRun ==
    /\ [](LastPromptDeclined =>
              /\ pc = "aborted"
              /\ \A m \in NetworkNames :
                     PositionOf(m) >= PositionOf(prompted[Len(prompted)]) =>
                         attempted[m] = <<>> /\ sent[m] = <<>>)
    /\ [][LastPromptDeclined =>
              UNCHANGED <<attempted, sent, prompted, confirmed, ni, ti>>]_vars

\* the operator declined alpha's single top-up; beta's three top-ups, later
\* in the iteration order, are still queued and nothing was submitted
C23_Witness ==
    /\ LastPromptDeclined
    /\ prompted = <<"alpha">>
    /\ Len(transaction_queue["alpha"]) = 1
    /\ Len(transaction_queue["beta"]) = 3
    /\ \A n \in NetworkNames : attempted[n] = <<>>

\* top_up has left the loops over the homes for the loop over the queues
InDispatchPhase ==
    pc \in {"transaction_stats", "bank_balance", "confirm", "dispatch",
            "done", "aborted"}

\* the failures top_up can meet while it builds the queues
ConstructionFailures == {"config", "get_balance", "get_nonce", "chain_id", "sign"}

\* C24: construction and dispatch are separate phases. While the queues are
\* built there is no prompt and no submission; the loop over the queues is
\* entered only once the last replica of the last address of the last home
\* has been processed; a failure raised during construction (an exhausted
\* read, a signing error, a chain config["networks"] lacks) ends the run with
\* nothing prompted for or submitted; and once the dispatch phase has begun
\* no queue changes and construction is never resumed.
C24_ConstructionThenDispatch ==
    /\ []((InConstruction \/ (pc = "crashed" /\ raised.op \in ConstructionFailures)) =>
              /\ prompted = <<>>
              /\ reported = [n \in NetworkNames |-> NoReport]
              /\ \A n \in NetworkNames : attempted[n] = <<>> /\ sent[n] = <<>>)
    /\ [](InDispatchPhase =>
              /\ hi = Len(Homes)
              /\ ai = Len(Addresses(home))
              /\ ri = Len(Replicas(home)))
    /\ [][(InDispatchPhase \/ prompted # <<>>) =>
              /\ transaction_queue' = transaction_queue
              /\ ~InConstruction'
              /\ UNCHANGED <<loop_vars, sign_calls>>]_vars

\* top_up died on the replica gamma, which config["networks"] lacks, after it
\* had built transactions for earlier pairs; nothing was prompted for or sent
C24_Witness ==
    /\ document = "unknown replica"
    /\ pc = "crashed"
    /\ raised = [op |-> "config", why |-> "KeyError"]
    /\ BuiltUpTo(Len(Networks)) > 1
    /\ prompted = <<>>
    /\ \A n \in NetworkNames : sent[n] = <<>>

\* C25: whatever other processes send from a bank while the queues are
\* built (its on-chain nonce only grows), the nonces within one network's
\* queue are strictly increasing in append order, hence pairwise distinct:
\* each is the nonce read for its own pair plus the queue length, and the
\* reads themselves never decrease.
C25_QueueNoncesStrictlyIncreasing ==
    \A n \in NetworkNames :
        /\ \A i \in QueuePositions(n) : \A j \in QueuePositions(n) :
               i < j =>
                   /\ read_nonces[n][i] <= read_nonces[n][j]
                   /\ transaction_queue[n][i].nonce < transaction_queue[n][j].nonce
        /\ \A i \in QueuePositions(n) :
               /\ read_nonces[n][i] >= InitialNonce(n)
               /\ read_nonces[n][i] <= chain_nonce[n]

\* another process sent from beta's bank between two evaluations: the second
\* queued nonce leaves a gap after the first
C25_Witness ==
    /\ Len(transaction_queue["beta"]) = 3
    /\ read_nonces["beta"][2] = read_nonces["beta"][1] + 1
    /\ transaction_queue["beta"][2].nonce = transaction_queue["beta"][1].nonce + 2
    /\ transaction_queue["beta"][3].nonce = transaction_queue["beta"][2].nonce + 1

\* the sum of the values of the transactions of q that pay address a
RECURSIVE SumValuesTo(_, _)
SumValuesTo(q, a) ==
    IF q = <<>> THEN 0
    ELSE (IF Head(q).to = a THEN Head(q).value ELSE 0) + SumValuesTo(Tail(q), a)

\* C26 as stated: for every chain c and address a, the values of all the
\* transactions queued for a on c add up to at most threshold(c) minus
\* balance(a, c), also when a is listed under several homes that monitor c
\* (stated for the addresses that have a transaction queued on c).
C26_QueuedSumWithinNeed ==
    \A p \in Monitored :
        (\E i \in QueuePositions(p[1]) : transaction_queue[p[1]][i].to = p[2]) =>
            SumValuesTo(transaction_queue[p[1]], p[2]) <=
                threshold[p[1]] - balance[p]

\* C27: every transaction in a network's queue belongs to that network: it
\* is signed with that network's bank signer, carries the chain id that
\* network's endpoint reports, resolved at its own build, and its nonce is
\* the bank nonce read on that network plus the length that queue had; and
\* the transactions submitted to a network's endpoint are transactions of
\* that network's queue.
C27_TransactionBelongsToItsChain ==
    \A n \in NetworkNames :
        /\ \A i \in QueuePositions(n) :
               /\ transaction_queue[n][i].signer = BankSigner(n)
               /\ transaction_queue[n][i].chainId = EndpointChainId(n)
               /\ transaction_queue[n][i].nonce = read_nonces[n][i] + (i - 1)
               /\ read_nonces[n][i] \in InitialNonce(n)..chain_nonce[n]
        /\ \A k \in 1..Len(attempted[n]) :
               /\ attempted[n][k] = transaction_queue[n][k]
               /\ attempted[n][k].signer = BankSigner(n)
               /\ attempted[n][k].chainId = EndpointChainId(n)

\* home alpha's address was topped up on alpha and on its replica beta: both
\* queues hold a transaction and beta's first one has been accepted by beta
C27_Witness ==
    /\ transaction_queue["alpha"] # <<>>
    /\ transaction_queue["beta"] # <<>>
    /\ transaction_queue["alpha"][1].chainId # transaction_queue["beta"][1].chainId
    /\ transaction_queue["alpha"][1].signer # transaction_queue["beta"][1].signer
    /\ sent["beta"] # <<>>
    /\ sent["beta"][1].chainId = EndpointChainId("beta")

\* C28: in a run in which the operator confirms every prompt and every
\* submission succeeds (a run that is neither aborted nor ended by an
\* exception), every queued transaction is eventually submitted exactly once
\* and nothing else is: the run ends with as many submissions started and
\* accepted on each network as its queue is long, each queue position
\* submitted once; and at no time has a network seen more submissions than
\* its queue holds or a submission of something not queued.
C28_EveryQueuedTransactionSubmittedOnce ==
    /\ [](\A n \in NetworkNames :
              /\ Len(attempted[n]) <= Len(transaction_queue[n])
              /\ Len(sent[n]) <= Len(attempted[n])
              /\ Range(attempted[n]) \subseteq Range(transaction_queue[n]))
    /\ \/ <>(pc \in {"aborted", "crashed"})
       \/ <>[](/\ pc = "done"
               /\ \A n \in NetworkNames :
                      /\ Len(attempted[n]) = Len(transaction_queue[n])
                      /\ Len(sent[n]) = Len(transaction_queue[n])
                      /\ \A i \in QueuePositions(n) :
                             sent[n][i] = transaction_queue[n][i])

\* the run returned after four confirmed submissions, one on alpha and three
\* on beta
C28_Witness ==
    /\ pc = "done"
    /\ raised = NoException
    /\ Len(transaction_queue["alpha"]) = 1
    /\ Len(transaction_queue["beta"]) = 3
    /\ Len(attempted["alpha"]) = 1
    /\ Len(attempted["beta"]) = 3
    /\ sent = transaction_queue

\* C29: every top_up run terminates. With every chain-client call returning
\* or failing within its retries and the operator answering every prompt,
\* the run reaches a final state and stays there: it returned with every
\* queue it was asked about confirmed and drained, it was aborted by a
\* decline, or it was stopped by an exception that left top_up.
C29_TopUpTerminates ==
    /\ <>[]Terminated
    /\ [](pc = "done" =>
              /\ raised = NoException
              /\ \A n \in NetworkNames :
                     transaction_queue[n] # <<>> =>
                         n \in confirmed /\ sent[n] = transaction_queue[n])
    /\ [](pc = "aborted" => LastPromptDeclined)
    /\ [](pc = "crashed" => raised # NoException)

\* the run was stopped by a submission on beta that failed eight times, after
\* alpha's queue had been drained
C29_Witness ==
    /\ pc = "crashed"
    /\ raised = [op |-> "dispatch_signed_transaction", why |-> "retries exhausted"]
    /\ confirmed = NetworkNames
    /\ sent["alpha"] = transaction_queue["alpha"]
    /\ sent["alpha"] # <<>>
    /\ Len(sent["beta"]) < Len(attempted["beta"])

\* every run of provision_kms_keys.py before the current one reached the
\* final table
EarlierRunsCompleted ==
    kms.completed = IF kms.pc = "done" THEN kms.run ELSE kms.run - 1

\* C22: provisioning is idempotent: once the script has run to its end on an
\* account, running it again creates no key and no alias, whatever the
\* number of aliases the account already holds.
C22_SecondRunCreatesNothing ==
    (kms.run >= 2 /\ EarlierRunsCompleted) =>
        (kms.new_keys = 0 /\ kms.new_aliases = 0)

\* the answer the user gave last at the prompt of initialize_osmosis_home,
\* blanks around it put aside
LastAnswer == strip(installer.answers[Len(installer.answers)])

AnsweredYes == installer.answers # <<>> /\ LastAnswer = YES

AnsweredNoOrExit ==
    installer.answers # <<>> /\ (LastAnswer = NO \/ is_exit(LastAnswer))

\* C30: the installer deletes and re-initialises the home directory only
\* after the user answered Yes or --overwrite was given; answering No or
\* 'exit' ends the program with status 0 and nothing deleted; an invalid
\* answer repeats the prompt.
C30_DeleteOnlyAfterYesOrOverwrite ==
    /\ [](/\ (installer.home # "old" \/ installer.pc \in {"rm", "init", "returned"})
              => (installer.overwrite \/ AnsweredYes)
          /\ AnsweredNoOrExit
              => (/\ installer.pc = "exited"
                  /\ installer.status = "0"
                  /\ installer.home = "old"))
    /\ [][(/\ Len(installer'.answers) = Len(installer.answers) + 1
           /\ strip(installer'.answers[Len(installer'.answers)]) # YES
           /\ strip(installer'.answers[Len(installer'.answers)]) # NO
           /\ ~is_exit(strip(installer'.answers[Len(installer'.answers)])))
          => (/\ installer'.pc = "prompt"
              /\ installer'.home = "old"
              /\ installer'.status = "none")]_vars

\* an invalid answer, then Yes typed with blanks around it, and the home
\* directory deleted and initialised again
C30_Witness ==
    /\ ~installer.overwrite
    /\ installer.answers = <<<<"y", "e", "s">>, <<" ", "1", " ">>>>
    /\ installer.home = "initialized"
    /\ installer.pc = "returned"

====
